---- MODULE Spec2Model ----
(***************************************************************************)
(* Model of the menu-extraction engine of main.py (class Parser).          *)
(*                                                                         *)
(* Text is modelled as a sequence of characters, each character a         *)
(* one-element string.  Characters outside ASCII are written as tokens:    *)
(* "nbsp" (U+00A0), "bullet" (U+2022), "a:" (a-umlaut), "u:" (u-umlaut).   *)
(* Regular expressions of the source are modelled by operators that scan   *)
(* the character sequence the way Python's re module does (leftmost        *)
(* match, greedy quantifiers).                                             *)
(***************************************************************************)
EXTENDS Integers, Sequences, FiniteSets, TLC

VARIABLES
    pc,             \* position of the run: which step has been taken
    date_str,       \* week_info_str handed to _get_monday_from_week_info_str
    today,          \* date.today(), a record [y, m, d]
    resolution,     \* outcome of _get_monday_from_week_info_str
    monday_date,    \* generate_feed's monday_date (proleptic ordinal), 0 = unset
    all_siblings,   \* the siblings following the Monday anchor, in document order
    weekday_contents, \* the dict returned by _split_menu_per_weekday
    meal_given,     \* the (name, label, allergens) a meal text was rendered from
    raw_meal,       \* the raw text handed to _parse_mealname
    meal_record,    \* the (name, category, allergenes) _parse_mealname returned
    soup,           \* the parsed document tree handed to _normalize_soup
    prev_soup,      \* the tree as it was before the latest normalization pass
    passes,         \* how many times _normalize_soup has run on soup
    page_siblings,  \* the siblings that follow the "Menuplan" heading of the page
    wochenteller,   \* generate_feed's wochenteller: an <li> node or None
    feed            \* the addMeal calls received by the feed builder, in order

dateVars == <<date_str, today, resolution, monday_date>>
splitVars == <<all_siblings, weekday_contents>>
mealVars == <<meal_given, raw_meal, meal_record>>
soupVars == <<soup, prev_soup, passes>>
feedVars == <<page_siblings, wochenteller, feed>>
vars == <<pc, dateVars, splitVars, mealVars, soupVars, feedVars>>

NoResolution == [ok |-> FALSE, date |-> 0, layer |-> 0, rejected |-> {}]

\* the variables of a component that a specification does not exercise
DateIdle ==
    /\ date_str = <<>>
    /\ today = [y |-> 2024, m |-> 11, d |-> 20]
    /\ resolution = NoResolution
    /\ monday_date = 0
SplitIdle ==
    /\ all_siblings = <<>>
    /\ weekday_contents = <<>>
NoMeal == [name |-> <<>>, label |-> 0, allergens |-> <<>>]
NoRecord == [name |-> <<>>, category |-> "", allergenes |-> <<>>]
MealIdle ==
    /\ meal_given = NoMeal
    /\ raw_meal = <<>>
    /\ meal_record = NoRecord
EmptySoup == [name |-> "[document]", text |-> <<>>, kids |-> <<>>]
SoupIdle ==
    /\ soup = EmptySoup
    /\ prev_soup = EmptySoup
    /\ passes = 0
\* Python's None where a node is expected
None == [name |-> "None", text |-> <<>>, kids |-> <<>>]
FeedIdle ==
    /\ page_siblings = <<>>
    /\ wochenteller = None
    /\ feed = <<>>

----------------------------------------------------------------------------
(* Characters and strings *)

Digits == <<"0","1","2","3","4","5","6","7","8","9">>
UpperLetters == <<"A","B","C","D","E","F","G","H","I","J","K","L","M",
                  "N","O","P","Q","R","S","T","U","V","W","X","Y","Z","A:","U:">>
LowerLetters == <<"a","b","c","d","e","f","g","h","i","j","k","l","m",
                  "n","o","p","q","r","s","t","u","v","w","x","y","z","a:","u:">>

Range(f) == {f[i] : i \in DOMAIN f}

IsDigit(c) == c \in Range(Digits)
\* [A-Z]: the ASCII capitals only
IsAsciiUpper(c) == \E i \in 1..26 : UpperLetters[i] = c
\* \w of a str pattern: letters (Unicode), digits and the underscore
IsWordChar(c) == c \in Range(Digits) \cup Range(UpperLetters) \cup Range(LowerLetters) \cup {"_"}
\* \s of a str pattern and the characters str.strip() removes
IsSpace(c) == c \in {" ", "\n", "\t", "\r", "\f", "nbsp"}

ToLower(c) ==
    IF c \in Range(UpperLetters)
    THEN LowerLetters[CHOOSE i \in DOMAIN UpperLetters : UpperLetters[i] = c]
    ELSE c

\* the character at position i, or "" outside the string
At(s, i) == IF i \in 1..Len(s) THEN s[i] ELSE ""

\* \b before position i
WordBoundary(s, i) == IsWordChar(At(s, i - 1)) # IsWordChar(At(s, i))

Min(S) == CHOOSE x \in S : \A y \in S : x <= y
Max(S) == CHOOSE x \in S : \A y \in S : x >= y

\* str.strip()
Strip(s) ==
    LET keep == {i \in 1..Len(s) : ~IsSpace(s[i])}
    IN  IF keep = {} THEN <<>> ELSE SubSeq(s, Min(keep), Max(keep))

\* pat occurs in s at position i
MatchesAt(s, i, pat) ==
    /\ i >= 1
    /\ i + Len(pat) - 1 <= Len(s)
    /\ \A k \in 1..Len(pat) : s[i + k - 1] = pat[k]

\* pat occurs in s at position i, re.IGNORECASE (pat is lower case)
MatchesAtIgnoreCase(s, i, pat) ==
    /\ i >= 1
    /\ i + Len(pat) - 1 <= Len(s)
    /\ \A k \in 1..Len(pat) : ToLower(s[i + k - 1]) = pat[k]

\* Python's "pat in s"
Contains(s, pat) == \E i \in 1..(Len(s) + 1) : MatchesAt(s, i, pat)

DigitVal(c) == (CHOOSE i \in DOMAIN Digits : Digits[i] = c) - 1

\* int() of a digit string
RECURSIVE ToInt(_)
ToInt(ds) ==
    IF ds = <<>> THEN 0
    ELSE 10 * ToInt(SubSeq(ds, 1, Len(ds) - 1)) + DigitVal(ds[Len(ds)])

RECURSIVE Concat(_)
Concat(ss) == IF ss = <<>> THEN <<>> ELSE Head(ss) \o Concat(Tail(ss))

----------------------------------------------------------------------------
(* datetime.date *)

IsLeap(y) == (y % 4 = 0) /\ ((y % 100 # 0) \/ (y % 400 = 0))

DaysInMonth(y, m) ==
    IF m = 2 THEN (IF IsLeap(y) THEN 29 ELSE 28)
    ELSE IF m \in {4, 6, 9, 11} THEN 30 ELSE 31

\* date(y, m, d) raises ValueError unless this holds
ValidDate(y, m, d) ==
    /\ y \in 1..9999
    /\ m \in 1..12
    /\ d \in 1..DaysInMonth(y, m)

RECURSIVE DaysBeforeMonth(_, _)
DaysBeforeMonth(y, m) ==
    IF m = 1 THEN 0 ELSE DaysBeforeMonth(y, m - 1) + DaysInMonth(y, m - 1)

\* date.toordinal(): 0001-01-01 is day 1
ToOrdinal(y, m, d) ==
    LET p == y - 1
    IN  p * 365 + (p \div 4) - (p \div 100) + (p \div 400) + DaysBeforeMonth(y, m) + d

\* date.weekday(): 0 = Monday
Weekday(ord) == (ord + 6) % 7

----------------------------------------------------------------------------
(* Date Resolver: Parser._get_monday_from_week_info_str *)

Months == <<
    [name |-> <<"j","a","n","u","a","r">>, num |-> 1],
    [name |-> <<"f","e","b","r","u","a","r">>, num |-> 2],
    [name |-> <<"m","a:","r","z">>, num |-> 3],
    [name |-> <<"m","a","e","r","z">>, num |-> 3],
    [name |-> <<"a","p","r","i","l">>, num |-> 4],
    [name |-> <<"m","a","i">>, num |-> 5],
    [name |-> <<"j","u","n","i">>, num |-> 6],
    [name |-> <<"j","u","l","i">>, num |-> 7],
    [name |-> <<"a","u","g","u","s","t">>, num |-> 8],
    [name |-> <<"s","e","p","t","e","m","b","e","r">>, num |-> 9],
    [name |-> <<"o","k","t","o","b","e","r">>, num |-> 10],
    [name |-> <<"n","o","v","e","m","b","e","r">>, num |-> 11],
    [name |-> <<"d","e","z","e","m","b","e","r">>, num |-> 12] >>

\* re.search: the leftmost position of a set of match positions, 0 = no match
FirstPos(S) == IF S = {} THEN 0 ELSE Min(S)

\* (\d{1,2})\. at position i: how many digits the group takes, 0 = no match
DigitsBeforeDot(s, i) ==
    IF IsDigit(At(s, i)) /\ IsDigit(At(s, i + 1)) /\ At(s, i + 2) = "." THEN 2
    ELSE IF IsDigit(At(s, i)) /\ At(s, i + 1) = "." THEN 1
    ELSE 0

\* (\d{1,2})\b at position i: how many digits the group takes, 0 = no match
DigitsBeforeBoundary(s, i) ==
    IF IsDigit(At(s, i)) /\ IsDigit(At(s, i + 1)) /\ ~IsWordChar(At(s, i + 2)) THEN 2
    ELSE IF IsDigit(At(s, i)) /\ ~IsWordChar(At(s, i + 1)) THEN 1
    ELSE 0

\* (\d{1,2})\.(\d{1,2})\.(\d{4}) matches at position i
NumericFullAt(s, i) ==
    LET n1 == DigitsBeforeDot(s, i)
        j  == i + n1 + 1
        n2 == DigitsBeforeDot(s, j)
        k  == j + n2 + 1
    IN  /\ n1 > 0
        /\ n2 > 0
        /\ \A q \in k..(k + 3) : IsDigit(At(s, q))

\* (\d{1,2})\.(\d{1,2})\b matches at position i
NumericShortAt(s, i) ==
    LET n1 == DigitsBeforeDot(s, i)
    IN  n1 > 0 /\ DigitsBeforeBoundary(s, i + n1 + 1) > 0

\* \b(20\d{2})\b matches at position i
YearAt(s, i) ==
    /\ WordBoundary(s, i)
    /\ At(s, i) = "2"
    /\ At(s, i + 1) = "0"
    /\ IsDigit(At(s, i + 2))
    /\ IsDigit(At(s, i + 3))
    /\ WordBoundary(s, i + 4)

\* year = int(ym.group(1)) if ym else date.today().year
YearIn(s, now) ==
    LET p == FirstPos({i \in 1..Len(s) : YearAt(s, i)})
    IN  IF p # 0 THEN ToInt(SubSeq(s, p, p + 3)) ELSE now.y

\* \b<name>\b, re.IGNORECASE, matches at position i
MonthNameAt(s, i, name) ==
    /\ WordBoundary(s, i)
    /\ MatchesAtIgnoreCase(s, i, name)
    /\ WordBoundary(s, i + Len(name))

MonthPos(s, k) == FirstPos({i \in 1..Len(s) : MonthNameAt(s, i, Months[k].name)})

\* the first entry of the months dict that occurs in s, 0 = none
MonthFound(s) == FirstPos({k \in DOMAIN Months : MonthPos(s, k) # 0})

\* \b(\d{1,2})\b matches at position i
StandaloneNumberAt(s, i) == WordBoundary(s, i) /\ DigitsBeforeBoundary(s, i) > 0

\* nums: the start positions of the standalone 1-2 digit numbers
NumPositions(s) == {i \in 1..Len(s) : StandaloneNumberAt(s, i)}
NumAt(s, i) == ToInt(SubSeq(s, i, i + DigitsBeforeBoundary(s, i) - 1))

\* The outcome of the resolver.  ok: a date was returned (date, an ordinal);
\* ~ok: an exception left the function.  layer: the layer that returned;
\* rejected: the layers that matched and built an invalid calendar date.
Returned(layer, y, m, d, rej) ==
    [ok |-> TRUE, date |-> ToOrdinal(y, m, d), layer |-> layer, rejected |-> rej]
Raised(rej) == [ok |-> FALSE, date |-> 0, layer |-> 0, rejected |-> rej]

\* 4) the first numeric day with the current month and year
LastResort(s, now, rej) ==
    LET nums == NumPositions(s)
    IN  IF nums # {}
        THEN LET day == NumAt(s, Min(nums))
             IN  IF ValidDate(now.y, now.m, day)
                 THEN Returned(4, now.y, now.m, day, rej)
                 ELSE Raised(rej \cup {4})
        ELSE Raised(rej)

\* 3) a German month name with a day number near it
TextualMonth(s, now) ==
    LET k     == MonthFound(s)
        nums  == NumPositions(s)
        year  == YearIn(s, now)
    IN  IF k # 0 /\ nums # {}
        THEN LET month_pos == MonthPos(s, k)
                 before == {i \in nums : i < month_pos}
                 day == IF before # {} THEN NumAt(s, Max(before))
                        ELSE NumAt(s, Min(nums))
             IN  IF ValidDate(year, Months[k].num, day)
                 THEN Returned(3, year, Months[k].num, day, {})
                 ELSE LastResort(s, now, {3})
        ELSE LastResort(s, now, {})

_get_monday_from_week_info_str(date_str_, now) ==
    LET s  == Strip(date_str_)
        p1 == FirstPos({i \in 1..Len(s) : NumericFullAt(s, i)})
        p2 == FirstPos({i \in 1..Len(s) : NumericShortAt(s, i)})
    IN  IF p1 # 0
        THEN LET n1 == DigitsBeforeDot(s, p1)
                 j  == p1 + n1 + 1
                 n2 == DigitsBeforeDot(s, j)
                 k  == j + n2 + 1
                 day   == ToInt(SubSeq(s, p1, p1 + n1 - 1))
                 month == ToInt(SubSeq(s, j, j + n2 - 1))
                 year  == ToInt(SubSeq(s, k, k + 3))
             IN  IF ValidDate(year, month, day)
                 THEN Returned(1, year, month, day, {})
                 ELSE Raised({1})
        ELSE IF p2 # 0
        THEN LET n1 == DigitsBeforeDot(s, p2)
                 j  == p2 + n1 + 1
                 n2 == DigitsBeforeBoundary(s, j)
                 day   == ToInt(SubSeq(s, p2, p2 + n1 - 1))
                 month == ToInt(SubSeq(s, j, j + n2 - 1))
                 year  == YearIn(s, now)
             IN  IF ValidDate(year, month, day)
                 THEN Returned(2, year, month, day, {})
                 ELSE Raised({2})
        ELSE TextualMonth(s, now)

\* generate_feed's fallback: today - timedelta(days=today.weekday())
FallbackMonday(now) ==
    LET o == ToOrdinal(now.y, now.m, now.d) IN o - Weekday(o)

----------------------------------------------------------------------------
(* Inputs of the Date Resolver *)

MaxWeekInfoParts == 3

WeekInfoParts == {
    <<"M","o",","," ","1","8",".","1","1",".">>,
    <<" ","b","i","s"," ","F","r",","," ">>,
    <<"2","2",".","1","1",".","2","0","2","4">>,
    <<"M","o",","," ">>,
    <<"1","8","."," ">>,
    <<"3","1","."," ">>,
    <<"N","o","v","e","m","b","e","r"," ">>,
    <<"2","0","2","4">> }

RECURSIVE PartSeqs(_, _)
PartSeqs(parts, n) ==
    IF n = 0 THEN {<<>>}
    ELSE LET shorter == PartSeqs(parts, n - 1)
         IN  shorter \cup {Append(q, p) : q \in {r \in shorter : Len(r) = n - 1}, p \in parts}

WeekInfoStrings == {Concat(q) : q \in PartSeqs(WeekInfoParts, MaxWeekInfoParts)}

\* a day in a 30-day month and a day in a 31-day month
Todays == { [y |-> 2024, m |-> 11, d |-> 20], [y |-> 2024, m |-> 12, d |-> 4] }

InitDate ==
    /\ pc = "start"
    /\ date_str \in WeekInfoStrings
    /\ today \in Todays
    /\ resolution = NoResolution
    /\ monday_date = 0
    /\ SplitIdle
    /\ MealIdle
    /\ SoupIdle
    /\ FeedIdle

\* generate_feed, lines 63-70: resolve the week start, fall back on any exception
ResolveMonday ==
    /\ pc = "start"
    /\ LET r == _get_monday_from_week_info_str(date_str, today)
       IN  /\ resolution' = r
           /\ monday_date' = IF r.ok THEN r.date ELSE FallbackMonday(today)
    /\ pc' = "resolved"
    /\ UNCHANGED <<date_str, today, splitVars, mealVars, soupVars, feedVars>>

NextDate == ResolveMonday

SpecDate == InitDate /\ [][NextDate]_vars

----------------------------------------------------------------------------
(* Claims about the Date Resolver, checked under SpecDate *)

ScenarioA ==
    <<"M","o",","," ","1","8",".","1","1",".">>
    \o <<" ","b","i","s"," ","F","r",","," ">>
    \o <<"2","2",".","1","1",".","2","0","2","4">>

\* C1: the week start generate_feed uses to date the meals is always a Monday:
\* the resolver returned a Monday, or the caller substituted the Monday of the
\* current system week.
C1_WeekStartIsMonday == pc = "resolved" => Weekday(monday_date) = 0

\* C2: "Mo, 18.11. bis Fr, 22.11.2024" resolves to the start of the range,
\* 2024-11-18, not to its end.
C2_RangeResolvesToStart ==
    (pc = "resolved" /\ date_str = ScenarioA)
        => (resolution.ok /\ resolution.date = ToOrdinal(2024, 11, 18))

\* C5: whenever the resolver fails (nothing matches, or a layer that matched
\* builds an invalid calendar date) the week start is the Monday of the current
\* system week; no later layer supplies another date.
C5_FailureFallsBackToSystemWeek ==
    (pc = "resolved" /\ (~resolution.ok \/ resolution.rejected # {}))
        => monday_date = FallbackMonday(today)

----------------------------------------------------------------------------
(* Document nodes (bs4 Tag and NavigableString).  A node is a record       *)
(* [name, text, kids]: a text node has name "#text" and its characters in  *)
(* text; an element has its tag name and its children in kids.            *)

TextNode(chars) == [name |-> "#text", text |-> chars, kids |-> <<>>]
Element(tag, children) == [name |-> tag, text |-> <<>>, kids |-> children]

\* every string of the subtree, in document order (Tag._all_strings)
RECURSIVE Strings(_)
Strings(node) ==
    IF node.name = "#text" THEN <<node.text>>
    ELSE Concat([k \in DOMAIN node.kids |-> Strings(node.kids[k])])

\* Tag.get_text()
GetText(node) == Concat(Strings(node))

RECURSIVE Join(_, _)
Join(ss, sep) ==
    IF ss = <<>> THEN <<>>
    ELSE IF Len(ss) = 1 THEN ss[1]
    ELSE ss[1] \o sep \o Join(Tail(ss), sep)

\* Tag.get_text(sep, strip=True): the stripped, non-empty strings joined by sep
GetTextStripped(node, sep) ==
    LET strs == Strings(node)
    IN  Join(SelectSeq([k \in DOMAIN strs |-> Strip(strs[k])], LAMBDA t : t # <<>>), sep)

----------------------------------------------------------------------------
(* Weekday Partitioner: Parser._split_menu_per_weekday *)

german_weekdays ==
    (0 :> <<"M","o","n","t","a","g">>) @@
    (1 :> <<"D","i","e","n","s","t","a","g">>) @@
    (2 :> <<"M","i","t","t","w","o","c","h">>) @@
    (3 :> <<"D","o","n","n","e","r","s","t","a","g">>) @@
    (4 :> <<"F","r","e","i","t","a","g">>) @@
    (5 :> <<"S","a","m","s","t","a","g">>) @@
    (6 :> <<"S","o","n","n","t","a","g">>)

num_weekdays == Cardinality(DOMAIN german_weekdays)

\* the next weekday appears in the sibling (lines 367-370)
IsNextWeekday(sibling, weekday_index) ==
    /\ weekday_index + 1 < num_weekdays
    /\ Contains(GetTextStripped(sibling, <<>>), german_weekdays[weekday_index + 1])

\* The loop of lines 363-376 from sibling i on, then lines 379-382.  A bucket
\* holds references to siblings: their positions in all_siblings.
RECURSIVE DropOnBoundaryWalk(_, _, _, _, _)
DropOnBoundaryWalk(sibs, i, result, current_tags, weekday_index) ==
    IF i > Len(sibs)
    THEN IF current_tags # <<>> THEN (weekday_index :> current_tags) @@ result ELSE result
    ELSE IF IsNextWeekday(sibs[i], weekday_index)
         THEN DropOnBoundaryWalk(sibs, i + 1, (weekday_index :> <<>>) @@ result,
                                 <<>>, weekday_index + 1)
         ELSE DropOnBoundaryWalk(sibs, i + 1, result, Append(current_tags, i), weekday_index)

RECURSIVE SplitWalk(_, _, _, _, _)
SplitWalk(sibs, i, result, current_tags, weekday_index) ==
    IF i > Len(sibs)
    THEN IF current_tags # <<>> THEN (weekday_index :> current_tags) @@ result ELSE result
    ELSE IF IsNextWeekday(sibs[i], weekday_index)
         THEN SplitWalk(sibs, i + 1, (weekday_index :> current_tags) @@ result,
                        <<>>, weekday_index + 1)
         ELSE SplitWalk(sibs, i + 1, result, Append(current_tags, i), weekday_index)

_split_menu_per_weekday(sibs) == SplitWalk(sibs, 1, <<>>, <<>>, 0)

----------------------------------------------------------------------------
(* Inputs of the Weekday Partitioner *)

MaxSiblings == 7

Paragraph(chars) == Element("p", <<TextNode(chars)>>)

\* how many weekday headings a walk over sibs recognises
RECURSIVE HeadingsRecognised(_)
HeadingsRecognised(sibs) ==
    IF sibs = <<>> THEN 0
    ELSE LET k == HeadingsRecognised(SubSeq(sibs, 1, Len(sibs) - 1))
         IN  IF IsNextWeekday(sibs[Len(sibs)], k) THEN k + 1 ELSE k

\* what may follow a sibling sequence in which k headings were recognised: a
\* content paragraph, the heading of the next weekday, the heading of the
\* current weekday again, or the heading of the weekday after the next (a
\* skipped heading)
NextSiblings(k) ==
    {Paragraph(<<"x">>)}
    \cup {Paragraph(<<" ">> \o german_weekdays[d] \o <<":">>) :
            d \in {k, k + 1, k + 2} \cap DOMAIN german_weekdays}

InitSplit ==
    /\ pc = "start"
    /\ all_siblings = <<>>
    /\ weekday_contents = <<>>
    /\ DateIdle
    /\ MealIdle
    /\ SoupIdle
    /\ FeedIdle

\* the page supplies one more sibling after the Monday anchor
AddSibling ==
    /\ pc = "start"
    /\ Len(all_siblings) < MaxSiblings
    /\ \E s \in NextSiblings(HeadingsRecognised(all_siblings)) :
           all_siblings' = Append(all_siblings, s)
    /\ UNCHANGED <<pc, weekday_contents, dateVars, mealVars, soupVars, feedVars>>

\* generate_feed, line 86: partition the siblings of the Monday anchor
SplitMenu ==
    /\ pc = "start"
    /\ weekday_contents' = _split_menu_per_weekday(all_siblings)
    /\ pc' = "split"
    /\ UNCHANGED <<all_siblings, dateVars, mealVars, soupVars, feedVars>>

NextSplit == AddSibling \/ SplitMenu

SpecSplit == InitSplit /\ [][NextSplit]_vars

----------------------------------------------------------------------------
(* Claims about the Weekday Partitioner, checked under SpecSplit *)

\* the buckets concatenated in increasing offset order
RECURSIVE BucketsFrom(_, _)
BucketsFrom(contents, k) ==
    IF k >= num_weekdays THEN <<>>
    ELSE (IF k \in DOMAIN contents THEN contents[k] ELSE <<>>) \o BucketsFrom(contents, k + 1)
AllBucketed == BucketsFrom(weekday_contents, 0)

NamesSomeWeekday(sibling) ==
    \E d \in 1..(num_weekdays - 1) :
        Contains(GetTextStripped(sibling, <<>>), german_weekdays[d])

C4_KeysAreOffsetsPresent ==
    pc = "split" => DOMAIN weekday_contents = 0..HeadingsRecognised(all_siblings)

----------------------------------------------------------------------------
(* Meal Text Parser: Parser._parse_mealname *)

NON_VEGETERIAN == "Nicht Vegetarisch"
VEGETERIAN == "Vegetarisch"
VEGAN == "Vegan"

\* the labels of the category pattern, in the order of its alternation
CategoryLabels == <<
    <<"v","e","g","a","n">>,
    <<"v","e","g","e","t","a","r","i","s","c","h">>,
    <<"v","e","g","a","n","/","v","e","g","e","t","a","r","i","s","c","h">> >>

\* meal.replace("\xa0", " ")
ReplaceNbsp(s) == [i \in DOMAIN s |-> IF s[i] = "nbsp" THEN " " ELSE s[i]]

\* str.replace(" ", "")
RemoveSpaces(s) == SelectSeq(s, LAMBDA c : c # " ")

\* str.split(",")
RECURSIVE SplitOnComma(_)
SplitOnComma(s) ==
    LET commas == {i \in DOMAIN s : s[i] = ","}
    IN  IF commas = {} THEN <<s>>
        ELSE <<SubSeq(s, 1, Min(commas) - 1)>>
             \o SplitOnComma(SubSeq(s, Min(commas) + 1, Len(s)))

\* the first position at or after i that holds no whitespace (greedy \s*)
RECURSIVE SkipSpaces(_, _)
SkipSpaces(s, i) == IF IsSpace(At(s, i)) THEN SkipSpaces(s, i + 1) ELSE i

\* [A-Z](?:,\s*[A-Z])* with its last letter at e so far: where the run ends
RECURSIVE RunEnd(_, _)
RunEnd(s, e) ==
    IF At(s, e + 1) = "," /\ IsAsciiUpper(At(s, SkipSpaces(s, e + 2)))
    THEN RunEnd(s, SkipSpaces(s, e + 2))
    ELSE e

\* \b([A-Z](?:,\s*[A-Z])*)\s*$ matches at position i
AllergenRunAt(s, i) ==
    /\ WordBoundary(s, i)
    /\ IsAsciiUpper(At(s, i))
    /\ SkipSpaces(s, RunEnd(s, i) + 1) > Len(s)

\* allergen_match.start(), 0 = no match
AllergenStart(s) == FirstPos({i \in 1..Len(s) : AllergenRunAt(s, i)})

\* allergen_match.group(1), <<>> = no match
AllergenSuffix(s) ==
    LET a == AllergenStart(s)
    IN  IF a = 0 THEN <<>> ELSE SubSeq(s, a, RunEnd(s, a))

\* \((vegan|vegetarisch|vegan/vegetarisch)\), re.IGNORECASE, matches at i with label k
CategoryAt(s, i, k) ==
    /\ At(s, i) = "("
    /\ MatchesAtIgnoreCase(s, i + 1, CategoryLabels[k])
    /\ At(s, i + 1 + Len(CategoryLabels[k])) = ")"

\* category_match.start(), 0 = no match
CategoryStart(s) ==
    FirstPos({i \in 1..Len(s) : \E k \in DOMAIN CategoryLabels : CategoryAt(s, i, k)})

\* label == "vegan": only the bare label counts as vegan
IsExactlyVegan(label) == label = CategoryLabels[1]

\* label.startswith("vegan")
StartsWithVegan(label) == MatchesAt(label, 1, CategoryLabels[1])

\* category from category_match.group(1).lower() (lines 273-274)
CategoryOf(s) ==
    LET i == CategoryStart(s)
        k == CHOOSE k \in DOMAIN CategoryLabels : CategoryAt(s, i, k)
    IN  IF i = 0 THEN NON_VEGETERIAN
        ELSE IF StartsWithVegan(CategoryLabels[k]) THEN VEGAN ELSE VEGETERIAN

\* where \(.*?\) ends when it starts at position j, 0 = no match
ParenClose(s, j) ==
    IF At(s, j) # "(" THEN 0
    ELSE FirstPos({k \in (j + 1)..Len(s) :
                     /\ s[k] = ")"
                     /\ \A q \in (j + 1)..(k - 1) : s[q] # "\n"})

\* re.sub(r"\s*\(.*?\)", "", s, count=1): only the first group is removed
RECURSIVE RemoveFirstParenFrom(_, _)
RemoveFirstParenFrom(s, i) ==
    IF i > Len(s) THEN <<>>
    ELSE LET close == ParenClose(s, SkipSpaces(s, i))
         IN  IF close # 0 THEN SubSeq(s, close + 1, Len(s))
             ELSE <<s[i]>> \o RemoveFirstParenFrom(s, i + 1)

\* re.sub(r"\s*\(.*?\)", "", s) from position i on
RECURSIVE RemoveParensFrom(_, _)
RemoveParensFrom(s, i) ==
    IF i > Len(s) THEN <<>>
    ELSE LET close == ParenClose(s, SkipSpaces(s, i))
         IN  IF close # 0 THEN RemoveParensFrom(s, close + 1)
             ELSE <<s[i]>> \o RemoveParensFrom(s, i + 1)

_parse_mealname(raw) ==
    LET meal0 == Strip(ReplaceNbsp(raw))
        a == AllergenStart(meal0)
        allergenes == IF a # 0 THEN SplitOnComma(RemoveSpaces(AllergenSuffix(meal0)))
                      ELSE <<>>
        meal1 == IF a # 0 THEN Strip(SubSeq(meal0, 1, a - 1)) ELSE meal0
        category == CategoryOf(meal1)
        name == IF CategoryStart(meal1) # 0 THEN Strip(RemoveParensFrom(meal1, 1))
                ELSE meal1
    IN  [name |-> name, category |-> category, allergenes |-> allergenes]

----------------------------------------------------------------------------
(* Inputs of the Meal Text Parser: raw meal texts *)

MaxMealParts == 4

MealParts == {
    <<"s">>, <<" ">>, <<"A">>, <<",">>, <<")">>, <<"\n">>,
    <<"(","v","e","g","a","n">>,
    <<"(","v","e","g","a","n",")">>,
    <<"(","V","e","g","e","t","a","r","i","s","c","h",")">> }

RawMealTexts == {Concat(q) : q \in PartSeqs(MealParts, MaxMealParts)}

InitMeal ==
    /\ pc = "start"
    /\ raw_meal \in RawMealTexts
    /\ meal_given = NoMeal
    /\ meal_record = NoRecord
    /\ DateIdle
    /\ SplitIdle
    /\ SoupIdle
    /\ FeedIdle

\* generate_feed, line 104: parse one meal's text
ParseMeal ==
    /\ pc = "start"
    /\ meal_record' = _parse_mealname(raw_meal)
    /\ pc' = "parsed"
    /\ UNCHANGED <<meal_given, raw_meal, dateVars, splitVars, soupVars, feedVars>>

NextMeal == ParseMeal

SpecMeal == InitMeal /\ [][NextMeal]_vars

----------------------------------------------------------------------------
(* Claims about raw meal texts, checked under SpecMeal *)

EndsWith(s, suffix) ==
    Len(suffix) <= Len(s) /\ SubSeq(s, Len(s) - Len(suffix) + 1, Len(s)) = suffix

\* t can be obtained from s by deleting characters
RECURSIVE IsSubsequence(_, _)
IsSubsequence(t, s) ==
    IF t = <<>> THEN TRUE
    ELSE IF s = <<>> THEN FALSE
    ELSE IF Head(t) = Head(s) THEN IsSubsequence(Tail(t), Tail(s))
    ELSE IsSubsequence(t, Tail(s))

\* the text the patterns are applied to, and the allergen run matched in it
TrimmedMeal == Strip(ReplaceNbsp(raw_meal))
MatchedRun == AllergenSuffix(TrimmedMeal)
BeforeRun == Strip(SubSeq(TrimmedMeal, 1, Len(TrimmedMeal) - Len(MatchedRun)))

----------------------------------------------------------------------------
(* Inputs of the Meal Text Parser: rendered meal texts *)

MaxNameParts == 4
MaxAllergens == 2

\* the names of meals: built without parentheses and in the form in which
\* _parse_mealname returns a name (no leading or trailing whitespace, no
\* non-breaking space)
NameParts == { <<"s">>, <<" ">>, <<"B">>, <<",">> }
IsNormalName(name) == name = Strip(ReplaceNbsp(name))
MealNames == {name \in {Concat(q) : q \in PartSeqs(NameParts, MaxNameParts)} :
                IsNormalName(name)}

AllergenCodes == {"A", "C", "G"}

\* the lists of distinct allergen codes
AllergenLists ==
    UNION {{f \in [1..n -> AllergenCodes] : \A i, j \in 1..n : i # j => f[i] # f[j]} :
             n \in 0..MaxAllergens}

\* the text of a meal: the name, the dietary label in parentheses (label 0:
\* none), the allergen codes separated by comma and space
RenderMealText(name, label, allergens) ==
    name
    \o (IF label = 0 THEN <<>> ELSE <<" ", "(">> \o CategoryLabels[label] \o <<")">>)
    \o (IF allergens = <<>> THEN <<>>
        ELSE <<" ">> \o Join([i \in DOMAIN allergens |-> <<allergens[i]>>], <<",", " ">>))

InitRoundTrip ==
    /\ pc = "start"
    /\ \E name \in MealNames, label \in 0..Len(CategoryLabels), allergens \in AllergenLists :
          /\ meal_given = [name |-> name, label |-> label, allergens |-> allergens]
          /\ raw_meal = RenderMealText(name, label, allergens)
    /\ meal_record = NoRecord
    /\ DateIdle
    /\ SplitIdle
    /\ SoupIdle
    /\ FeedIdle

SpecRoundTrip == InitRoundTrip /\ [][NextMeal]_vars

----------------------------------------------------------------------------
(* Claims about rendered meal texts, checked under SpecRoundTrip *)

\* the category a rendered label stands for
GivenCategory ==
    IF meal_given.label = 0 THEN NON_VEGETERIAN
    ELSE IF meal_given.label = 2 THEN VEGETERIAN
    ELSE VEGAN

\* the allergen codes as the parser reports them: one string per code
GivenAllergenes == [i \in DOMAIN meal_given.allergens |-> <<meal_given.allergens[i]>>]

RoundTrips ==
    /\ meal_record.name = meal_given.name
    /\ meal_record.category = GivenCategory
    /\ meal_record.allergenes = GivenAllergenes

\* the name ends in a single upper-case letter standing alone (the end of a
\* run of single upper-case letters)
EndsInLetterRun(name) ==
    LET t == Strip(name)
    IN  t # <<>> /\ IsAsciiUpper(t[Len(t)]) /\ ~IsWordChar(At(t, Len(t) - 1))

\* the name ends in such a letter followed by a comma
EndsInLetterRunAndComma(name) ==
    /\ name # <<>>
    /\ name[Len(name)] = ","
    /\ EndsInLetterRun(SubSeq(name, 1, Len(name) - 1))
    /\ ~IsSpace(At(name, Len(name) - 1))

HasParenthesis(name) == \E i \in DOMAIN name : name[i] \in {"(", ")"}

\* C6 (as stated): for every name without parentheses that does not end in a
\* run of single upper-case letters, every category and every set of allergen
\* codes, parsing the rendered text returns the original triple.
C6_RoundTrip ==
    (pc = "parsed" /\ ~HasParenthesis(meal_given.name) /\ ~EndsInLetterRun(meal_given.name))
        => RoundTrips

\* C6 (amended): the round trip holds for every name in the parser's normal
\* form (no leading or trailing whitespace, no non-breaking space) without
\* parentheses that ends neither in a run of single upper-case letters nor in
\* such a run followed by a comma.
C6_RoundTripOfNormalNames ==
    (/\ pc = "parsed"
     /\ ~HasParenthesis(meal_given.name)
     /\ ~EndsInLetterRun(meal_given.name)
     /\ IsNormalName(meal_given.name)
     /\ ~EndsInLetterRunAndComma(meal_given.name))
        => RoundTrips

\* C6 witness: a name of two words rendered with the label "vegan/vegetarisch"
\* and two allergen codes, parsed back
C6_Witness ==
    /\ pc = "parsed"
    /\ meal_given.name = <<"s", " ", "s">>
    /\ meal_given.label = 3
    /\ Len(meal_given.allergens) = 2
    /\ RoundTrips

----------------------------------------------------------------------------
(* Text Normalizer: Parser._normalize_soup *)

\* Tag.unwrap() on every <tag> below node: the children take the tag's place
RECURSIVE UnwrapAll(_, _)
UnwrapAll(node, tag) ==
    IF node.name = "#text" THEN node
    ELSE [node EXCEPT !.kids =
            Concat([k \in DOMAIN node.kids |->
                      IF node.kids[k].name = tag
                      THEN UnwrapAll(node.kids[k], tag).kids
                      ELSE <<UnwrapAll(node.kids[k], tag)>>])]

\* br.replace_with("\n") on every <br> below node
RECURSIVE ReplaceBrs(_)
ReplaceBrs(node) ==
    IF node.name = "#text" THEN node
    ELSE [node EXCEPT !.kids =
            [k \in DOMAIN node.kids |->
               IF node.kids[k].name = "br" THEN TextNode(<<"\n">>)
               ELSE ReplaceBrs(node.kids[k])]]

\* where \n\s*\n+ ends when it starts at position i, 0 = no match
NewlineRunEnd(s, i) ==
    IF At(s, i) # "\n" THEN 0
    ELSE LET e == SkipSpaces(s, i + 1) - 1
             nl == {k \in (i + 1)..e : s[k] = "\n"}
         IN  IF nl = {} THEN 0 ELSE Max(nl)

\* re.sub("\n\n", "\n", s): only pairs of adjacent newlines are collapsed
RECURSIVE CollapsePairsFrom(_, _)
CollapsePairsFrom(s, i) ==
    IF i > Len(s) THEN <<>>
    ELSE IF At(s, i) = "\n" /\ At(s, i + 1) = "\n"
         THEN <<"\n">> \o CollapsePairsFrom(s, i + 2)
         ELSE <<s[i]>> \o CollapsePairsFrom(s, i + 1)

\* re.sub(r"\n\s*\n+", "\n", s) from position i on (line 186)
RECURSIVE CollapseNewlinesFrom(_, _)
CollapseNewlinesFrom(s, i) ==
    IF i > Len(s) THEN <<>>
    ELSE LET e == NewlineRunEnd(s, i)
         IN  IF e # 0 THEN <<"\n">> \o CollapseNewlinesFrom(s, e + 1)
             ELSE <<s[i]>> \o CollapseNewlinesFrom(s, i + 1)

\* lines 184-189 on every text node below node
RECURSIVE CollapseStrings(_)
CollapseStrings(node) ==
    IF node.name = "#text"
    THEN IF node.text # <<>> /\ "\n" \in Range(node.text)
         THEN TextNode(CollapseNewlinesFrom(node.text, 1))
         ELSE node
    ELSE [node EXCEPT !.kids = [k \in DOMAIN node.kids |-> CollapseStrings(node.kids[k])]]

_normalize_soup(tree) ==
    CollapseStrings(ReplaceBrs(UnwrapAll(UnwrapAll(tree, "div"), "span")))

----------------------------------------------------------------------------
(* Inputs of the Text Normalizer *)

MaxKids == 2
MaxPasses == 2

SoupTexts == {
    <<"a">>,
    <<"\n","\n","\n">>,
    <<"a","\n"," ","\n","\n","b","\n">> }

SoupLeaves == {TextNode(s) : s \in SoupTexts} \cup {Element("br", <<>>)}

\* an element around up to MaxKids leaves
FlatElements ==
    {Element(tag, kids) : tag \in {"div", "span", "p"}, kids \in PartSeqs(SoupLeaves, MaxKids)}

\* a wrapper around a flat element, alone or after a leaf
NestedElements ==
    {Element(tag, <<inner>>) : tag \in {"div", "span"}, inner \in FlatElements}
    \cup {Element(tag, <<leaf, inner>>) :
            tag \in {"div", "p"}, leaf \in SoupLeaves,
            inner \in {Element("span", kids) : kids \in PartSeqs(SoupLeaves, MaxKids)}}

SoupNodes == SoupLeaves \cup FlatElements \cup NestedElements

\* the document: one node, alone or beside a leaf
Soups ==
    {[EmptySoup EXCEPT !.kids = <<node>>] : node \in SoupNodes}
    \cup {[EmptySoup EXCEPT !.kids = <<leaf, node>>] : leaf \in SoupLeaves, node \in SoupNodes}
    \cup {[EmptySoup EXCEPT !.kids = <<node, leaf>>] : leaf \in SoupLeaves, node \in SoupNodes}

InitSoup ==
    /\ pc = "start"
    /\ soup \in Soups
    /\ prev_soup = soup
    /\ passes = 0
    /\ DateIdle
    /\ SplitIdle
    /\ MealIdle
    /\ FeedIdle

\* generate_feed, line 55 (run again to compare a second pass with the first)
NormalizeSoup ==
    /\ passes < MaxPasses
    /\ soup' = _normalize_soup(soup)
    /\ prev_soup' = soup
    /\ passes' = passes + 1
    /\ pc' = "normalized"
    /\ UNCHANGED <<dateVars, splitVars, mealVars, feedVars>>

NextSoup == NormalizeSoup

SpecSoup == InitSoup /\ [][NextSoup]_vars

----------------------------------------------------------------------------
(* Claims about the Text Normalizer, checked under SpecSoup *)

RECURSIVE HasTag(_, _)
HasTag(node, tags) ==
    \/ node.name \in tags
    \/ \E k \in DOMAIN node.kids : HasTag(node.kids[k], tags)

HasNewlineRun(s) == \E i \in 1..(Len(s) - 1) : s[i] = "\n" /\ s[i + 1] = "\n"

\* C9: _normalize_soup is idempotent: a pass over an already normalized tree
\* changes nothing; after one pass no div, span or br remains and no text node
\* holds two or more consecutive newlines.
C9_NormalizeIdempotent ==
    /\ passes >= 1 =>
          /\ ~HasTag(soup, {"div", "span", "br"})
          /\ \A k \in DOMAIN Strings(soup) : ~HasNewlineRun(Strings(soup)[k])
    /\ passes >= 2 => soup = prev_soup

\* C9 witness: a second pass over a tree whose first pass unwrapped a wrapper,
\* replaced a br and collapsed newlines
C9_Witness ==
    /\ passes = 2
    /\ Len(Strings(soup)) >= 3
    /\ \E k \in DOMAIN Strings(soup) : Len(Strings(soup)[k]) >= 4

----------------------------------------------------------------------------
(* Tree search: Tag.find and Tag.find_all *)

\* the descendants of a node in document order
RECURSIVE Descendants(_)
Descendants(node) ==
    Concat([k \in DOMAIN node.kids |-> <<node.kids[k]>> \o Descendants(node.kids[k])])

\* Tag.find_all(tag)
FindAll(node, tag) == SelectSeq(Descendants(node), LAMBDA n : n.name = tag)

\* Tag.find(tag): the first descendant with that name, or None
Find(node, tag) ==
    LET found == FindAll(node, tag)
    IN  IF found = <<>> THEN None ELSE found[1]

----------------------------------------------------------------------------
(* Meal-List Locator: Parser._find_menu_in_current_weekday_content *)

\* str.split("\n")
RECURSIVE SplitLines(_)
SplitLines(s) ==
    LET breaks == {i \in DOMAIN s : s[i] = "\n"}
    IN  IF breaks = {} THEN <<s>>
        ELSE <<SubSeq(s, 1, Min(breaks) - 1)>>
             \o SplitLines(SubSeq(s, Min(breaks) + 1, Len(s)))

\* the end of the run of [•\-*\s] characters starting at i
SkipBullets(s, i) ==
    Min({j \in i..Len(s) : ~(s[j] \in {"bullet", "-", "*"} \/ IsSpace(s[j]))} \cup {Len(s) + 1})

\* the end of the run of digits starting at i
SkipDigits(s, i) == Min({j \in i..Len(s) : ~IsDigit(s[j])} \cup {Len(s) + 1})

\* the end of the run of dots starting at i
SkipDots(s, i) == Min({j \in i..Len(s) : s[j] # "."} \cup {Len(s) + 1})

\* re.sub(r"^[•\-\*\s]*\d*\.*\s*", "", ln)
StripBullet(ln) ==
    LET a == SkipBullets(ln, 1)
        b == SkipDigits(ln, a)
        c == SkipDots(ln, b)
        d == SkipSpaces(ln, c)
    IN  SubSeq(ln, d, Len(ln))

\* re.sub(r"\s+", " ", ln)
RECURSIVE CollapseSpacesFrom(_, _)
CollapseSpacesFrom(s, i) ==
    IF i > Len(s) THEN <<>>
    ELSE IF IsSpace(s[i]) THEN <<" ">> \o CollapseSpacesFrom(s, SkipSpaces(s, i))
    ELSE <<s[i]>> \o CollapseSpacesFrom(s, i + 1)

\* lines 205-211 for the text of one tag
ItemsOfText(text) ==
    LET split   == SplitLines(text)
        lines   == SelectSeq([k \in DOMAIN split |-> Strip(split[k])], LAMBDA ln : ln # <<>>)
        cleaned == [k \in DOMAIN lines |-> CollapseSpacesFrom(StripBullet(lines[k]), 1)]
    IN  SelectSeq(cleaned, LAMBDA ln : ln # <<>>)

_extract_items_from_weekday_tags(weekday_content) ==
    Concat([k \in DOMAIN weekday_content |->
              ItemsOfText(GetTextStripped(weekday_content[k], <<"\n">>))])

\* lines 225-233 for one bucket node: its <ul> if that has the fingerprint
FingerprintedList(content) ==
    LET ul == IF content.name = "ul" THEN content ELSE Find(content, "ul")
        li == IF ul = None THEN None ELSE Find(ul, "li")
    IN  IF ul # None /\ li # None /\ Find(li, "p") # None THEN ul ELSE None

\* lines 224-233: the first bucket node that yields a list
RECURSIVE PrimaryList(_, _)
PrimaryList(weekday_content, i) ==
    IF i > Len(weekday_content) THEN None
    ELSE LET ul == FingerprintedList(weekday_content[i])
         IN  IF ul # None THEN ul ELSE PrimaryList(weekday_content, i + 1)

\* lines 239-245: a synthetic <ul> with one <li> per item
SyntheticList(items) ==
    Element("ul", [k \in DOMAIN items |-> Element("li", <<TextNode(items[k])>>)])

_find_menu_in_current_weekday_content(weekday_content) ==
    LET ul    == PrimaryList(weekday_content, 1)
        items == _extract_items_from_weekday_tags(weekday_content)
    IN  IF ul # None THEN ul
        ELSE IF items # <<>> THEN SyntheticList(items) ELSE None

----------------------------------------------------------------------------
(* Feed Assembler: Parser.generate_feed, lines 72-132 *)

VEG_PRICE == 6
NON_VEG_PRICE == 7
WOCHENTELLER_PRICE == 8

\* str() of a natural number
RECURSIVE IntToStr(_)
IntToStr(n) ==
    IF n < 10 THEN <<Digits[n + 1]>>
    ELSE IntToStr(n \div 10) \o <<Digits[(n % 10) + 1]>>

\* zero-padded to two digits (strftime %m, %d)
Pad2(n) == IF n < 10 THEN <<"0">> \o IntToStr(n) ELSE IntToStr(n)

\* the year, month and day of an ordinal (date.fromordinal)
RECURSIVE YearFrom(_, _)
YearFrom(ord, y) == IF ToOrdinal(y + 1, 1, 1) <= ord THEN YearFrom(ord, y + 1) ELSE y
RECURSIVE MonthFrom(_, _, _)
MonthFrom(ord, y, m) ==
    IF m < 12 /\ ToOrdinal(y, m + 1, 1) <= ord THEN MonthFrom(ord, y, m + 1) ELSE m

\* (monday_date + timedelta(days=i)).strftime("%Y-%m-%d"), for years 1000-9999
DateStr(ord) ==
    LET y == YearFrom(ord, ord \div 366)
        m == MonthFrom(ord, y, 1)
        d == ord - ToOrdinal(y, m, 1) + 1
    IN  IntToStr(y) \o <<"-">> \o Pad2(m) \o <<"-">> \o Pad2(d)

\* f"{price}.00"
PriceStr(price) == IntToStr(price) \o <<".", "0", "0">>

\* feed.addMeal(date, category, name, allergenes, prices) as the builder receives it
AddMeal(date, category, name, notes, prices) ==
    [date |-> date, category |-> category, name |-> name, notes |-> notes, prices |-> prices]

\* lines 104-111: the call made for one <li> of the day's menu
MealCall(current_date_str, li) ==
    LET parsed == _parse_mealname(GetText(li))
        price  == IF parsed.category = NON_VEGETERIAN THEN NON_VEG_PRICE ELSE VEG_PRICE
    IN  AddMeal(current_date_str, <<parsed.category>>, parsed.name, parsed.allergenes,
                [student |-> PriceStr(price - 2), other |-> PriceStr(price)])

\* lines 119-128: the call made for the weekly special; its category is the
\* text "Wochenteller " followed by the parsed category
SpecialCall(current_date_str, li) ==
    LET parsed == _parse_mealname(GetText(li))
    IN  AddMeal(current_date_str, <<"Wochenteller ", parsed.category>>, parsed.name,
                parsed.allergenes, [other |-> PriceStr(WOCHENTELLER_PRICE)])

\* the special is added before the day is looked at: also to a day without menu
DayCallsSpecialFirst(current_date_str, current_day_menu, special) ==
    LET meals == FindAll(current_day_menu, "li")
    IN  (IF special # None THEN <<SpecialCall(current_date_str, special)>> ELSE <<>>)
        \o (IF current_day_menu = None THEN <<>>
            ELSE [k \in DOMAIN meals |-> MealCall(current_date_str, meals[k])])

\* lines 96-128: the calls made for one weekday
DayCalls(current_date_str, current_day_menu, special) ==
    LET meals == FindAll(current_day_menu, "li")
    IN  IF current_day_menu = None THEN <<>>
        ELSE [k \in DOMAIN meals |-> MealCall(current_date_str, meals[k])]
             \o (IF special # None THEN <<SpecialCall(current_date_str, special)>> ELSE <<>>)

\* the nodes of a bucket
BucketNodes(sibs, bucket) == [k \in DOMAIN bucket |-> sibs[bucket[k]]]

\* lines 88-128: the loop over weekday_contents.items(), from offset i on
RECURSIVE CallsFrom(_, _, _, _, _)
CallsFrom(sibs, contents, monday, special, i) ==
    IF i >= num_weekdays THEN <<>>
    ELSE (IF i \in DOMAIN contents
          THEN DayCalls(DateStr(monday + i),
                        _find_menu_in_current_weekday_content(BucketNodes(sibs, contents[i])),
                        special)
          ELSE <<>>)
         \o CallsFrom(sibs, contents, monday, special, i + 1)

\* the position of the first <p> sibling whose text contains the word, 0 = none
FirstParagraphWith(sibs, word) ==
    FirstPos({i \in DOMAIN sibs : sibs[i].name = "p" /\ Contains(GetText(sibs[i]), word)})

_parse_wochenteller(sibs) ==
    LET w == FirstParagraphWith(sibs, <<"W","o","c","h","e","n","t","e","l","l","e","r">>)
    IN  IF w = 0 THEN None
        ELSE IF w = Len(sibs) THEN None
        ELSE Find(sibs[w + 1], "li")

Montag == <<"M","o","n","t","a","g">>

\* the siblings after the <h2> up to the Monday anchor: nothing, a weekly
\* special with its list, or a weekly special paragraph without a list
WochentellerParagraph == Paragraph(<<"W","o","c","h","e","n","t","e","l","l","e","r">>)
WochentellerList ==
    Element("ul", <<Element("li", <<TextNode(<<"s"," ","(","v","e","g","a","n",")"," ","A">>)>>)>>)
Preambles ==
    {<<>>, <<WochentellerParagraph>>, <<WochentellerParagraph, WochentellerList>>}

\* the siblings a page can carry after the Monday anchor
MealList ==
    Element("ul", <<Element("li", <<Paragraph(<<"s"," ","A">>)>>),
                    Element("li", <<Paragraph(<<"s"," ","(","v","e","g","a","n",")">>)>>)>>)
TextMenu ==
    Element("p", <<TextNode(<<"s">>), TextNode(<<"\n">>), TextNode(<<"1","."," ","s"," ","A">>)>>)
BulletParagraph == Element("p", <<TextNode(<<" ">>), TextNode(<<"\n">>), TextNode(<<"-"," ">>)>>)
PlainList == Element("ul", <<Element("li", <<TextNode(<<"x">>)>>)>>)
TwoLists ==
    Element("section", <<PlainList, Element("ul", <<Element("li", <<Paragraph(<<"s"," ","A">>)>>)>>)>>)
\* what may follow siblings in which k weekday headings were recognised: the
\* heading of the next weekday or the content of the current one
TailSiblings(k) ==
    {Paragraph(<<" ">> \o german_weekdays[k + 1] \o <<":">>),
     MealList, TextMenu, BulletParagraph, PlainList, TwoLists}

MaxTail == 3

\* the Monday dates handed to the loop
Mondays == {ToOrdinal(2024, 11, 18), ToOrdinal(2024, 12, 30)}

InitFeed ==
    /\ pc = "start"
    /\ page_siblings \in Preambles
    /\ monday_date \in Mondays
    /\ wochenteller = None
    /\ feed = <<>>
    /\ date_str = <<>>
    /\ today = [y |-> 2024, m |-> 11, d |-> 20]
    /\ resolution = NoResolution
    /\ SplitIdle
    /\ MealIdle
    /\ SoupIdle

\* the page supplies one more sibling after the <h2>
AddPageSibling ==
    /\ pc = "start"
    /\ LET anchor == FirstParagraphWith(page_siblings, Montag)
           tail   == SubSeq(page_siblings, anchor + 1, Len(page_siblings))
       IN  IF anchor = 0
           THEN page_siblings' = Append(page_siblings, Paragraph(Montag))
           ELSE /\ Len(tail) < MaxTail
                /\ \E s \in TailSiblings(HeadingsRecognised(tail)) :
                       page_siblings' = Append(page_siblings, s)
    /\ UNCHANGED <<pc, wochenteller, feed, dateVars, splitVars, mealVars, soupVars>>

\* generate_feed, lines 72-132: the weekly special, the Monday anchor, the
\* partition and the loop over the weekdays; without an anchor line 86 raises
AssembleFeed ==
    /\ pc = "start"
    /\ wochenteller' = _parse_wochenteller(page_siblings)
    /\ LET anchor == FirstParagraphWith(page_siblings, Montag)
           sibs   == SubSeq(page_siblings, anchor + 1, Len(page_siblings))
       IN  IF anchor = 0
           THEN /\ pc' = "aborted"
                /\ UNCHANGED <<all_siblings, weekday_contents, feed>>
           ELSE /\ all_siblings' = sibs
                /\ weekday_contents' = _split_menu_per_weekday(sibs)
                /\ feed' = CallsFrom(sibs, weekday_contents', monday_date, wochenteller', 0)
                /\ pc' = "assembled"
    /\ UNCHANGED <<page_siblings, dateVars, mealVars, soupVars>>

NextFeed == AddPageSibling \/ AssembleFeed

SpecFeed == InitFeed /\ [][NextFeed]_vars

----------------------------------------------------------------------------
(* Claims about the Meal-List Locator and the Feed Assembler, checked under SpecFeed *)

\* the nodes of the bucket of offset k
BucketOf(k) == BucketNodes(all_siblings, weekday_contents[k])

\* every list element of a bucket in document order: a bucket node itself or
\* a list nested anywhere inside one
ListsOf(bucket) ==
    Concat([k \in DOMAIN bucket |->
              (IF bucket[k].name = "ul" THEN <<bucket[k]>> ELSE <<>>)
              \o FindAll(bucket[k], "ul")])

\* the first list-item of the list contains a nested paragraph element
HasFingerprint(ul) ==
    LET li == Find(ul, "li")
    IN  li # None /\ Find(li, "p") # None

MatchingLists(bucket) == SelectSeq(ListsOf(bucket), HasFingerprint)

\* no string of the bucket holds anything but whitespace and bullet characters
NoExtractableText(bucket) ==
    \A k \in DOMAIN bucket : \A str \in Range(Strings(bucket[k])) :
        \A i \in DOMAIN str : str[i] \in {"bullet", "-", "*"} \/ IsSpace(str[i])

Closed(k) == MatchingLists(BucketOf(k)) = <<>> /\ NoExtractableText(BucketOf(k))

\* the records of the feed dated monday + k
RecordsOf(k) == SelectSeq(feed, LAMBDA r : r.date = DateStr(monday_date + k))

IsSpecial(r) == r.category[1] = "Wochenteller "

\* C8: in a generate_feed pass a weekday whose bucket has no matching list and
\* no extractable text gets None from _find_menu_in_current_weekday_content and
\* contributes no record (no meal, no weekly special) to the feed, a page with
\* a Monday anchor never aborts the pass, and every other weekday is still
\* processed: a weekday with a menu contributes one record per list item plus
\* the weekly special if there is one, all dated monday + offset, in offset
\* order, and the feed holds no other record.
C8_ClosedDaySkippedOthersDated ==
    /\ (pc = "aborted" => FirstParagraphWith(page_siblings, Montag) = 0)
    /\ pc = "assembled" =>
         LET keys   == DOMAIN weekday_contents
             menus  == [k \in keys |-> _find_menu_in_current_weekday_content(BucketOf(k))]
             closed == {k \in keys : Closed(k)}
             dates  == [k \in keys |-> DateStr(monday_date + k)]
             recs   == [k \in keys |-> SelectSeq(feed, LAMBDA r : r.date = dates[k])]
             day    == [n \in DOMAIN feed |-> {k \in keys : dates[k] = feed[n].date}]
         IN  /\ \A k \in closed : menus[k] = None /\ recs[k] = <<>>
             /\ \A k \in keys :
                  menus[k] # None =>
                    /\ Len(SelectSeq(recs[k], LAMBDA r : ~IsSpecial(r)))
                         = Len(FindAll(menus[k], "li"))
                    /\ Len(SelectSeq(recs[k], IsSpecial))
                         = IF wochenteller # None THEN 1 ELSE 0
                    /\ recs[k] # <<>>
             /\ \A n \in DOMAIN feed : day[n] # {} /\ day[n] \cap closed = {}
             /\ \A n \in DOMAIN feed : \A m \in DOMAIN feed :
                  n < m => \E j \in day[n] : \E k \in day[m] : j <= k

\* a pass with a weekly special over a closed Monday followed by a Tuesday with
\* a menu, the monday date being the 30th of December
C8_Witness ==
    /\ pc = "assembled"
    /\ wochenteller # None
    /\ monday_date = ToOrdinal(2024, 12, 30)
    /\ 0 \in DOMAIN weekday_contents /\ 1 \in DOMAIN weekday_contents
    /\ BucketOf(0) # <<>> /\ Closed(0)
    /\ RecordsOf(0) = <<>>
    /\ Len(RecordsOf(1)) = 3
    /\ feed[1].date = <<"2","0","2","4","-","1","2","-","3","1">>

\* C10: whenever a weekday bucket contains a list (a bucket node itself or one
\* nested anywhere inside a bucket node) whose first list-item contains a
\* nested paragraph, _find_menu_in_current_weekday_content returns the first
\* such list in document order, and the text-line fallback is used only when
\* no list of the bucket has that fingerprint.
C10_FirstMatchingListReturned ==
    pc = "assembled" =>
      \A k \in DOMAIN weekday_contents :
          IF MatchingLists(BucketOf(k)) # <<>>
          THEN _find_menu_in_current_weekday_content(BucketOf(k))
                 = MatchingLists(BucketOf(k))[1]
          ELSE _find_menu_in_current_weekday_content(BucketOf(k))
                 \in {None, SyntheticList(_extract_items_from_weekday_tags(BucketOf(k)))}

====
